---- MODULE Spec2Model ----
(***************************************************************************)
(* Model of index.js: the vendor / product-type classifiers, the title     *)
(* builder, the EUR -> RON price rule, the option / variant assembly, and  *)
(* the POST /scrape-product-images handler step by step, with the image    *)
(* loop of a second request writing to the same processed directory.       *)
(*                                                                         *)
(* Text is modelled character by character on TLA+ strings.  Strings are   *)
(* written in Unicode NFD form; the character "~" stands for any combining *)
(* diacritical mark (U+0300..U+036F), so "Rot~i" is the word "Roti" with a *)
(* comma below the t, and "clema~" is "clema" with a breve on the last a.  *)
(* Amounts are integers in hundredths (EUR cents in, RON bani out).         *)
(***************************************************************************)
EXTENDS Integers, Sequences, FiniteSets, TLC

VARIABLES pc, status, fullText, productTitle, searchTerm, detectedVendor,
          detectedType, colours, highestEuroOnPage, dom, popupFrom, parsed,
          colourPriceMap, options, variants, finalTitle, response,
          credentials, err, waitTimedOut, specs_html, titleTypeForDisplay,
          finalImageUrls, fetchable, imgIndex, processedImages, files,
          otherImageUrls, otherIndex

\* the request body, the caught error, the outcome of the soft wait, steps
\* 12-14, the image loop, the processed directory, and the image loop of
\* another request served by the same process
handlerVars == <<credentials, err, waitTimedOut, specs_html, titleTypeForDisplay,
                 finalImageUrls, fetchable, imgIndex, processedImages, files,
                 otherImageUrls, otherIndex>>

vars == <<pc, status, fullText, productTitle, searchTerm, detectedVendor,
          detectedType, colours, highestEuroOnPage, dom, popupFrom, parsed,
          colourPriceMap, options, variants, finalTitle, response, handlerVars>>

\* null / undefined where a string is expected, and where an amount is expected
\* (an amount read off the page is never negative)
NULL == "<null>"
NULL_EUR == -1

(***************************************************************************)
(* Characters and strings                                                  *)
(***************************************************************************)
CharAt(s, i) == SubSeq(s, i, i)

UPPER == "ABCDEFGHIJKLMNOPQRSTUVWXYZ"
LOWER == "abcdefghijklmnopqrstuvwxyz"
DIGITS == "0123456789"

InStr(c, alphabet) == \E i \in 1..Len(alphabet) : CharAt(alphabet, i) = c

IndexIn(c, alphabet) == CHOOSE i \in 1..Len(alphabet) : CharAt(alphabet, i) = c

\* String.prototype.toLowerCase / toUpperCase on one character
LowerChar(c) == IF InStr(c, UPPER) THEN CharAt(LOWER, IndexIn(c, UPPER)) ELSE c
UpperChar(c) == IF InStr(c, LOWER) THEN CharAt(UPPER, IndexIn(c, LOWER)) ELSE c

\* the regex class \s and the combining marks [U+0300-U+036F]
IsSpace(c) == c = " "
IsMark(c) == c = "~"
\* the regex class \w, which decides \b
IsWordChar(c) == InStr(c, LOWER) \/ InStr(c, UPPER) \/ InStr(c, DIGITS) \/ c = "_"
\* the class [a-z0-9]
IsLowerAlnum(c) == InStr(c, LOWER) \/ InStr(c, DIGITS)

\* the per-character operations of the string functions below
LowerAt(s, i) == LowerChar(CharAt(s, i))
UpperAt(s, i) == UpperChar(CharAt(s, i))
\* s.normalize("NFD").replace(/[U+0300-U+036F]/g, "")
UnmarkedAt(s, i) == IF IsMark(CharAt(s, i)) THEN "" ELSE CharAt(s, i)
\* s.replace(/[^a-z0-9]+/g, " ")
NonAlnumRunAt(s, i) ==
  IF IsLowerAlnum(CharAt(s, i)) THEN CharAt(s, i)
  ELSE IF i > 1 /\ ~IsLowerAlnum(CharAt(s, i - 1)) THEN "" ELSE " "
\* str.replace(/\S+/g, w => w[0].toUpperCase() + w.slice(1).toLowerCase())
TitleCaseAt(s, i) ==
  IF IsSpace(CharAt(s, i)) THEN CharAt(s, i)
  ELSE IF i = 1 \/ IsSpace(CharAt(s, i - 1)) THEN UpperChar(CharAt(s, i))
  ELSE LowerChar(CharAt(s, i))
\* String.prototype.trim
TrimAt(s, i) ==
  IF IsSpace(CharAt(s, i))
     /\ (\/ \A k \in 1..i : IsSpace(CharAt(s, k))
         \/ \A k \in i..Len(s) : IsSpace(CharAt(s, k)))
  THEN "" ELSE CharAt(s, i)
\* s.replace(/\s{2,}/g, " ")
CollapseAt(s, i) ==
  IF IsSpace(CharAt(s, i)) /\ i > 1 /\ IsSpace(CharAt(s, i - 1)) THEN "" ELSE CharAt(s, i)
\* s.replace(/[^a-z0-9]+/gi, "")
AlnumOnlyAt(s, i) ==
  IF IsLowerAlnum(CharAt(s, i)) \/ InStr(CharAt(s, i), UPPER) THEN CharAt(s, i) ELSE ""

CharOp(F, s, i) ==
  CASE F = "LowerAt" -> LowerAt(s, i)
    [] F = "UpperAt" -> UpperAt(s, i)
    [] F = "UnmarkedAt" -> UnmarkedAt(s, i)
    [] F = "NonAlnumRunAt" -> NonAlnumRunAt(s, i)
    [] F = "TitleCaseAt" -> TitleCaseAt(s, i)
    [] F = "TrimAt" -> TrimAt(s, i)
    [] F = "CollapseAt" -> CollapseAt(s, i)
    [] F = "AlnumOnlyAt" -> AlnumOnlyAt(s, i)

\* F(s, lo) \o ... \o F(s, hi), where F names the per-character operation
RECURSIVE ConcatRange(_, _, _, _)
ConcatRange(F, s, lo, hi) ==
  IF lo > hi THEN ""
  ELSE IF lo = hi THEN CharOp(F, s, lo)
  ELSE LET mid == (lo + hi) \div 2
       IN  ConcatRange(F, s, lo, mid) \o ConcatRange(F, s, mid + 1, hi)

toLowerCase(s) == ConcatRange("LowerAt", s, 1, Len(s))
toUpperCase(s) == ConcatRange("UpperAt", s, 1, Len(s))

\* s.normalize("NFD").replace(/[U+0300-U+036F]/g, "")
stripDiacritics(s) == IF s = NULL THEN "" ELSE ConcatRange("UnmarkedAt", s, 1, Len(s))

norm(s) == toLowerCase(stripDiacritics(s))

\* s.replace(/[^a-z0-9]+/g, " ")
ReplaceNonAlnumRuns(s) == ConcatRange("NonAlnumRunAt", s, 1, Len(s))

\* String.prototype.includes
Includes(t, w) == \E i \in 1..(Len(t) - Len(w) + 1) : SubSeq(t, i, i + Len(w) - 1) = w

\* " " + norm(text).replace(/[^a-z0-9]+/g, " ") + " "
Haystack(text) == " " \o ReplaceNonAlnumRuns(norm(text)) \o " "

\* t.includes(" " + norm(word) + " ")
HaystackHasWord(t, word) == Includes(t, " " \o norm(word) \o " ")

textIncludesWord(text, word) == HaystackHasWord(Haystack(text), word)

(***************************************************************************)
(* Vendor catalog                                                          *)
(***************************************************************************)
VENDORS_LITERAL == <<
  "Revolution Supply Co", "Radio Bike Co", "Cadillac Wheels", "Retrospec", "Reversal",
  "Whitespace", "GoZone Skimboards", "DB Skimboards", "Family", "Colony", "Dominator", "Drone", "Dial 911",
  "Habitat Skateboards", "Meow Skateboards", "Ocean Pacific", "Root Industries",
  "Triple Eight", "Essentials Skateboarding", "Grit", "Salt", "Sisu", "TLC", "Apex",
  "Academy", "Alien Workshop", "Blueprint BMXFIX", "BSD", "Cadillac", "Core", "Crisp",
  "Dial 911", "Division", "Doomed", "Drone Scooters", "Eclat", "Eight Ball", "Fiction BMX",
  "Figz Collection", "Flexsurfing", "Flypaper", "Fuse", "Graw Jump Ramps", "Habitat",
  "HangUp", "Heart Supply", "Hella Grip", "Hohing", "Indo", "JD Bug", "Jessup", "KFD",
  "Kitefix", "Longway", "Lucky", "Madrid", "Mafia", "Native", "North Scooters", "North",
  "Panda", "Pivot", "Prime8", "Primus", "Proto", "RAD Skateboards", "Rampage", "River",
  "Roces", "Rocker", "Root Industries", "Root", "Skatemate", "Speed Demons", "Stolen", "Striker", "Supreme",
  "Tall Order", "Tempish", "Tilt", "Triple Skate Hook", "Trynyty", "Venom", "Venor Skates",
  "Verb", "Wethepeople", "Wildcat", "Zoo York", "Odi" >>

\* Array.prototype.sort with (a,b) => b.length - a.length: stable, longest first.
\* The element at index i lands after every longer element and after the
\* equally long elements that precede it.
SortedPosition(list, i) ==
  1 + Cardinality({j \in 1..Len(list) : Len(list[j]) > Len(list[i])})
    + Cardinality({j \in 1..(i - 1) : Len(list[j]) = Len(list[i])})

\* the catalog left in its declared order
KeepDeclaredOrder(list) == list

SortByLengthDesc(list) ==
  [k \in 1..Len(list) |-> list[CHOOSE i \in 1..Len(list) : SortedPosition(list, i) = k]]

VENDORS == SortByLengthDesc(VENDORS_LITERAL)

\* for (const x of list) if (textIncludesWord(text, x)) return x; return null
\* (t is Haystack(text), which textIncludesWord recomputes for every x)
FirstIncluded(t, list) ==
  LET hits == {i \in 1..Len(list) : HaystackHasWord(t, list[i])}
  IN  IF hits = {} THEN NULL
      ELSE list[CHOOSE i \in hits : \A j \in hits : i <= j]

detectVendor(text) == FirstIncluded(Haystack(text), VENDORS)

(***************************************************************************)
(* Regular expressions.  A pattern is a sequence of items, matched with    *)
(* the i flag and with \b on both sides:                                   *)
(*   <<"lit", s>>     the literal s                                        *)
(*   <<"opt", s>>     s? , (s)?                                            *)
(*   <<"ws*", "">>    \s*                                                  *)
(*   <<"optcls", cs>> [cs]?  (one optional character of the string cs)     *)
(***************************************************************************)
LitEnds(t, pos, s) ==
  IF pos + Len(s) - 1 <= Len(t) /\ SubSeq(t, pos, pos + Len(s) - 1) = s
  THEN {pos + Len(s)} ELSE {}

ItemEnds(t, pos, item) ==
  CASE item[1] = "lit" -> LitEnds(t, pos, item[2])
    [] item[1] = "opt" -> {pos} \cup LitEnds(t, pos, item[2])
    [] item[1] = "ws*" ->
         {e \in pos..(Len(t) + 1) : \A k \in pos..(e - 1) : IsSpace(CharAt(t, k))}
    [] item[1] = "optcls" ->
         {pos} \cup (IF pos <= Len(t) /\ InStr(CharAt(t, pos), item[2])
                     THEN {pos + 1} ELSE {})

RECURSIVE MatchEnds(_, _, _)
MatchEnds(t, starts, items) ==
  IF items = <<>> THEN starts
  ELSE MatchEnds(t, UNION {ItemEnds(t, p, Head(items)) : p \in starts}, Tail(items))

\* \b between the characters pos-1 and pos
WordBoundary(t, pos) ==
  LET before == pos > 1 /\ IsWordChar(CharAt(t, pos - 1))
      after  == pos <= Len(t) /\ IsWordChar(CharAt(t, pos))
  IN  before # after

\* /\b<items>\b/i.test(text)
RegexTest(items, text) ==
  LET t == toLowerCase(text)
  IN  \E s \in 1..(Len(t) + 1) :
        /\ WordBoundary(t, s)
        /\ \E e \in MatchEnds(t, {s}, items) : WordBoundary(t, e)

L(s) == <<"lit", s>>
O(s) == <<"opt", s>>
WS == <<"ws*", "">>
OC(cs) == <<"optcls", cs>>

(***************************************************************************)
(* Product types                                                           *)
(***************************************************************************)
PRODUCT_TYPES == <<
  "Adaptor", "Bar End", "BPM", "Casca", "Ceara", "Clamp", "Complete", "Deck", "Deck End",
  "Distantieri", "Diverse", "Frana", "Furca", "Genunchiere", "Ghidon", "Glezniere", "Griptape",
  "Headset", "Imbracaminte", "Imbus", "Inbus", "Kendama", "Mansoane", "Peg", "Roti", "Roata", "Rot~i",
  "Rulmenti", "Sporting Goods", "Stand", "Sticker", "Suruburi", "Talpici" >>

\* Object.entries(PRODUCT_TYPE_ALIASES): string keys, hence insertion order
PRODUCT_TYPE_ALIASES == <<
  [canonical |-> "Mansoane", patterns |-> <<
     <<L("man"), O("s"), L("oane")>>,
     <<L("grip"), O("s")>> >>],
  [canonical |-> "Bar End", patterns |-> <<
     <<L("bar"), WS, L("end"), O("s")>>,
     <<L("bar"), O("-"), L("end"), O("s")>>,
     <<L("barend"), O("s")>> >>],
  [canonical |-> "Clamp", patterns |-> <<
     <<L("clamp"), O("s")>>,
     <<L("clema")>>,
     <<L("scs")>> >>],
  [canonical |-> "Adaptor", patterns |-> <<
     <<L("adaptor"), O("s")>>,
     <<L("adapter"), O("s")>>,
     <<L("shim"), O("s")>>,
     <<L("c"), OC("- "), L("ring")>>,
     <<L("sleeve"), O("s")>> >>],
  [canonical |-> "Distantieri", patterns |-> <<
     <<L("spacer"), O("s")>>,
     <<L("distantier"), O("i")>> >>],
  [canonical |-> "Deck End", patterns |-> <<
     <<L("deck"), WS, L("end"), O("s")>>,
     <<L("plug"), O("s")>>,
     <<L("plug")>> >>],
  [canonical |-> "Ceara", patterns |-> <<
     <<L("ceara")>>,
     <<L("wax")>> >>],
  [canonical |-> "Stand", patterns |-> <<
     <<L("stand")>> >>],
  [canonical |-> "Top Cap", patterns |-> <<
     <<L("top"), WS, L("cap")>>,
     <<L("star"), OC("- "), L("nut")>>,
     <<L("starnut")>> >>],
  \* piulit[a<a-breve>]: the precomposed letter cannot occur in normalized text
  [canonical |-> "Suruburi", patterns |-> <<
     <<L("bolt"), O("s")>>,
     <<L("surub"), O("uri")>>,
     <<L("nut"), O("s")>>,
     <<L("piulita")>>,
     <<L("ax")>>,
     <<L("osie"), O("i")>> >>],
  [canonical |-> "Rulmenti", patterns |-> <<
     <<L("bearing"), O("s")>>,
     <<L("rulment"), O("i")>> >>],
  [canonical |-> "Imbus", patterns |-> <<
     <<L("tool"), O("s")>>,
     <<L("imbus")>>,
     <<L("inbus")>> >>] >>

\* patterns.some(re => re.test(ntext))
SomePatternMatches(patterns, ntext) ==
  \E i \in 1..Len(patterns) : RegexTest(patterns[i], ntext)

\* the last matching entry of the table instead of the first
LastAlias(ntext, table) ==
  LET hits == {i \in 1..Len(table) : SomePatternMatches(table[i].patterns, ntext)}
  IN  IF hits = {} THEN NULL
      ELSE table[CHOOSE i \in hits : \A j \in hits : i >= j].canonical

\* for (const [canonical, patterns] of Object.entries(...)) if (some) return canonical
FirstAlias(ntext, table) ==
  LET hits == {i \in 1..Len(table) : SomePatternMatches(table[i].patterns, ntext)}
  IN  IF hits = {} THEN NULL
      ELSE table[CHOOSE i \in hits : \A j \in hits : i <= j].canonical

clampHit(ntext) ==
  \/ RegexTest(<<L("clamp"), O("s")>>, ntext)
  \/ RegexTest(<<L("clema")>>, ntext)
  \/ RegexTest(<<L("scs")>>, ntext)

\* the classification without the clamp-family override
detectProductTypeNoOverride(text) ==
  LET ntext == norm(text)
      alias == FirstAlias(ntext, PRODUCT_TYPE_ALIASES)
  IN  IF alias # NULL THEN alias
      ELSE FirstIncluded(Haystack(ntext), PRODUCT_TYPES)

detectProductType(text) ==
  LET ntext == norm(text)
      alias == FirstAlias(ntext, PRODUCT_TYPE_ALIASES)
  IN  IF clampHit(ntext) THEN "Clamp"
      ELSE IF alias # NULL THEN alias
      ELSE FirstIncluded(Haystack(ntext), PRODUCT_TYPES)

isSCS(title) == RegexTest(<<L("scs")>>, title)

(***************************************************************************)
(* Title helpers                                                           *)
(***************************************************************************)
\* str.replace(/\S+/g, w => w[0].toUpperCase() + w.slice(1).toLowerCase())
toTitleCase(str) == IF str = NULL THEN "" ELSE ConcatRange("TitleCaseAt", str, 1, Len(str))

\* String.prototype.trim
Trim(s) == ConcatRange("TrimAt", s, 1, Len(s))

\* s.replace(/\s{2,}/g, " ")
CollapseSpaces(s) == ConcatRange("CollapseAt", s, 1, Len(s))

\* s.replace(/[^a-z0-9]+/gi, "")
RemoveNonAlnum(s) == ConcatRange("AlnumOnlyAt", s, 1, Len(s))

\* s.split(/\s+/): the words of s, with an empty first (last) token when s
\* starts (ends) with white space
WordStarts(s) ==
  {i \in 1..Len(s) : ~IsSpace(CharAt(s, i)) /\ (i = 1 \/ IsSpace(CharAt(s, i - 1)))}
WordEnd(s, i) ==
  CHOOSE e \in i..Len(s) :
    /\ \A k \in i..e : ~IsSpace(CharAt(s, k))
    /\ (e = Len(s) \/ IsSpace(CharAt(s, e + 1)))
Words(s) ==
  LET starts == WordStarts(s)
      nth(k) == CHOOSE i \in starts : Cardinality({j \in starts : j < i}) = k - 1
  IN  [k \in 1..Cardinality(starts) |-> SubSeq(s, nth(k), WordEnd(s, nth(k)))]
SplitWhitespace(s) ==
  IF s = "" THEN <<"">>
  ELSE (IF IsSpace(CharAt(s, 1)) THEN <<"">> ELSE <<>>)
       \o Words(s)
       \o (IF IsSpace(CharAt(s, Len(s))) THEN <<"">> ELSE <<>>)

\* Array.prototype.join
RECURSIVE Join(_, _)
Join(list, sep) ==
  IF list = <<>> THEN ""
  ELSE IF Len(list) = 1 THEN list[1]
  ELSE list[1] \o sep \o Join(Tail(list), sep)

\* a key that is not lowercased
WordKeyCaseSensitive(tok) == RemoveNonAlnum(stripDiacritics(tok))

\* stripDiacritics(tok).toLowerCase().replace(/[^a-z0-9]+/gi, "")
WordKey(tok) == RemoveNonAlnum(toLowerCase(stripDiacritics(tok)))

\* the for loop of dedupeTitleWords: tokens from index i on, with the set
\* seen and the list out built so far
RECURSIVE DedupeLoop(_, _, _, _)
DedupeLoop(tokens, i, seen, out) ==
  IF i > Len(tokens) THEN out
  ELSE LET tok == tokens[i]
           key == WordKey(tok)
       IN  IF key = "" THEN DedupeLoop(tokens, i + 1, seen, Append(out, tok))
           ELSE IF key \notin seen
                THEN DedupeLoop(tokens, i + 1, seen \cup {key}, Append(out, tok))
                ELSE DedupeLoop(tokens, i + 1, seen, out)

dedupeTitleWords(title) ==
  IF title = NULL \/ title = "" THEN title
  ELSE Trim(CollapseSpaces(Join(DedupeLoop(SplitWhitespace(title), 1, {}, <<>>), " ")))

\* [productType, vendor, searchTerm].map(s => (s || "").toString().trim()).filter(Boolean)
TitleParts(productType, vendor, term) ==
  LET trimmed == [i \in 1..3 |->
                   LET p == <<productType, vendor, term>>[i]
                   IN  IF p = NULL THEN "" ELSE Trim(p)]
  IN  SelectSeq(trimmed, LAMBDA p : p # "")

\* the whole-part dedupe loop of buildTitle
RECURSIVE DedupeParts(_, _, _, _)
DedupeParts(parts, i, seenParts, out) ==
  IF i > Len(parts) THEN out
  ELSE LET k == toLowerCase(stripDiacritics(parts[i]))
       IN  IF k \notin seenParts
           THEN DedupeParts(parts, i + 1, seenParts \cup {k}, Append(out, parts[i]))
           ELSE DedupeParts(parts, i + 1, seenParts, out)

buildTitle(productType, vendor, term) ==
  LET out    == DedupeParts(TitleParts(productType, vendor, term), 1, {}, <<>>)
      titled == toTitleCase(Join(out, " "))
  IN  dedupeTitleWords(titled)

(***************************************************************************)
(* Pricing rule                                                            *)
(***************************************************************************)
\* EUR_TO_RON = 4.97, in hundredths
EUR_TO_RON_X100 == 497
\* const step = 5
step == 5

\* Math.ceil(a / b) for a >= 0, b > 0
CeilDiv(a, b) == (a + b - 1) \div b

\* the decimal digits written lowest first
RECURSIVE DigitsOfReversed(_)
DigitsOfReversed(n) ==
  IF n < 10 THEN CharAt(DIGITS, n + 1)
  ELSE CharAt(DIGITS, (n % 10) + 1) \o DigitsOfReversed(n \div 10)

\* decimal digits of n >= 0
RECURSIVE DigitsOf(_)
DigitsOf(n) ==
  IF n < 10 THEN CharAt(DIGITS, n + 1)
  ELSE DigitsOf(n \div 10) \o CharAt(DIGITS, (n % 10) + 1)

\* Number.prototype.toFixed(2) of the value hundredths / 100
toFixed2(hundredths) ==
  LET a == IF hundredths < 0 THEN -hundredths ELSE hundredths
  IN  (IF hundredths < 0 THEN "-" ELSE "")
      \o DigitsOf(a \div 100) \o "."
      \o CharAt(DIGITS, ((a \div 10) % 10) + 1) \o CharAt(DIGITS, (a % 10) + 1)

\* toRON99_99 without its null guard: Number(null) is 0
toRON99_99_NullAsZero(eur) ==
  LET amount   == IF eur = NULL_EUR THEN 0 ELSE eur
      bucketUp == CeilDiv(amount * EUR_TO_RON_X100, 10000 * step)
  IN  toFixed2(bucketUp * step * 100 - 1)

\* eur is an amount in EUR cents or NULL_EUR; ron = eur/100 * 4.97, so
\* ron / step = eur * 497 / (10000 * step)
toRON99_99(eur) ==
  IF eur = NULL_EUR THEN NULL
  ELSE LET bucketUp == CeilDiv(eur * EUR_TO_RON_X100, 10000 * step)
           target   == bucketUp * step * 100 - 1
       IN  toFixed2(target)

(***************************************************************************)
(* The product page.  The elements matched by                              *)
(*   ".show-for-large, .variant_list .row, .variant-row, ..., .row"        *)
(* are a sequence of nodes in document order; a node is                    *)
(*   [kind |-> "header", colour]      text "<Culoare|Colour|Color>: colour" *)
(*   [kind |-> "row", size, priceEur] a size row: its extracted size and   *)
(*                                    the amount of lines 454-465, or none *)
(*   [kind |-> "text", priceEur]      any other text, with the largest     *)
(*                                    euro amount it shows, or none        *)
(* popupFrom = 0: the page has no #product_popup / div.reveal-overlay;     *)
(* popupFrom = k > 0: both exist and hold the nodes k..Len(dom).           *)
(***************************************************************************)
Header(c) == [kind |-> "header", colour |-> c]
Row(sz, eur) == [kind |-> "row", size |-> sz, priceEur |-> eur]
Text(eur) == [kind |-> "text", priceEur |-> eur]

\* [document, #product_popup, div.reveal-overlay].filter(Boolean)
Roots(nodes, from) ==
  <<nodes>> \o (IF from = 0 THEN <<>>
               ELSE <<SubSeq(nodes, from, Len(nodes)), SubSeq(nodes, from, Len(nodes))>>)

Range(f) == {f[i] : i \in DOMAIN f}

\* Set.prototype.add on an insertion-ordered Set
SetAdd(list, x) == IF x \in Range(list) THEN list ELSE Append(list, x)

\* the inner loop of step 9 over the nodes of one root
RECURSIVE ParseNodes(_, _, _, _)
ParseNodes(nodes, i, currentColour, acc) ==
  IF i > Len(nodes) THEN acc
  ELSE LET el == nodes[i]
       IN  CASE el.kind = "header" ->
                  ParseNodes(nodes, i + 1, el.colour,
                             [acc EXCEPT !.colours = SetAdd(@, el.colour)])
             [] el.kind = "row" ->
                  LET rowColour == currentColour
                  IN  ParseNodes(nodes, i + 1, currentColour,
                        [colours |-> IF rowColour # NULL THEN SetAdd(acc.colours, rowColour)
                                     ELSE acc.colours,
                         sizes   |-> SetAdd(acc.sizes, el.size),
                         rows    |-> Append(acc.rows,
                                      [color |-> rowColour, size |-> el.size,
                                       priceEur |-> el.priceEur])])
             [] OTHER -> ParseNodes(nodes, i + 1, currentColour, acc)

\* the outer loop of step 9: stop at the first root that yields rows
RECURSIVE ParseRoots(_, _, _)
ParseRoots(roots, r, acc) ==
  IF r > Len(roots) THEN acc
  ELSE LET next == ParseNodes(roots[r], 1, NULL, acc)
       IN  IF Len(next.rows) > 0 THEN next ELSE ParseRoots(roots, r + 1, next)

ParseVariantRows(nodes, from) ==
  ParseRoots(Roots(nodes, from), 1, [colours |-> <<>>, sizes |-> <<>>, rows |-> <<>>])

\* Math.max(a, b) where a may be absent
MaxEur(a, b) == IF a = NULL_EUR THEN b ELSE IF a >= b THEN a ELSE b

\* out[key] = value on a plain object
Put(map, key, value) == [k \in DOMAIN map \cup {key} |-> IF k = key THEN value ELSE map[k]]

\* the inner loop of the colour -> price evaluation (lines 540-562)
RECURSIVE PriceNodes(_, _, _, _)
PriceNodes(nodes, i, currentColour, out) ==
  IF i > Len(nodes) THEN out
  ELSE LET el == nodes[i]
       IN  IF el.kind = "header"
           THEN PriceNodes(nodes, i + 1, el.colour,
                           IF el.colour \in DOMAIN out THEN out ELSE Put(out, el.colour, NULL_EUR))
           ELSE IF currentColour # NULL /\ el.priceEur # NULL_EUR
                THEN PriceNodes(nodes, i + 1, currentColour,
                                Put(out, currentColour, MaxEur(out[currentColour], el.priceEur)))
                ELSE PriceNodes(nodes, i + 1, currentColour, out)

\* the outer loop (lines 533-566): stop at the first root that yields a price
RECURSIVE PriceRoots(_, _, _)
PriceRoots(roots, r, out) ==
  IF r > Len(roots) THEN out
  ELSE LET next == PriceNodes(roots[r], 1, NULL, out)
       IN  IF \E k \in DOMAIN next : next[k] # NULL_EUR THEN next
           ELSE PriceRoots(roots, r + 1, next)

\* lines 572-576: merge the prices of the parsed rows
RECURSIVE MergeRowPrices(_, _, _)
MergeRowPrices(rows, i, map) ==
  IF i > Len(rows) THEN map
  ELSE LET r == rows[i]
       IN  IF r.color # NULL /\ r.priceEur # NULL_EUR
           THEN MergeRowPrices(rows, i + 1,
                  Put(map, r.color,
                      MaxEur(IF r.color \in DOMAIN map THEN map[r.color] ELSE NULL_EUR, r.priceEur)))
           ELSE MergeRowPrices(rows, i + 1, map)

EmptyMap == [k \in {} |-> NULL_EUR]

ColourPriceMapOf(nodes, from, p) ==
  IF Len(p.sizes) = 0
  THEN MergeRowPrices(p.rows, 1, PriceRoots(Roots(nodes, from), 1, EmptyMap))
  ELSE EmptyMap

(***************************************************************************)
(* Step 11: options and variants                                           *)
(***************************************************************************)
allColoursOf(p, pageColours) ==
  IF Len(p.colours) > 0 THEN p.colours
  ELSE IF Len(pageColours) > 0 THEN pageColours ELSE <<>>

\* r.color || (allColours[0] || "Default")
colorValOf(r, allColours) ==
  IF r.color # NULL THEN r.color
  ELSE IF Len(allColours) > 0 THEN allColours[1] ELSE "Default"

SizedVariant(colorVal, size, eur) ==
  [option1 |-> colorVal, option2 |-> size, price |-> toRON99_99(eur),
   inventory_policy |-> "continue", taxable |-> FALSE, inventory_management |-> "shopify"]

ColourVariant(color, eur) ==
  [option1 |-> color, price |-> toRON99_99(eur),
   inventory_policy |-> "continue", taxable |-> FALSE, inventory_management |-> "shopify"]

\* the loop of lines 584-602 without seen.add(key)
RECURSIVE SizedLoopNoSeen(_, _, _, _, _, _)
SizedLoopNoSeen(rows, i, allColours, fallback, seen, out) ==
  IF i > Len(rows) THEN out
  ELSE LET r        == rows[i]
           colorVal == colorValOf(r, allColours)
           eur      == IF r.priceEur # NULL_EUR THEN r.priceEur ELSE fallback
       IN  SizedLoopNoSeen(rows, i + 1, allColours, fallback, seen,
                           Append(out, SizedVariant(colorVal, r.size, eur)))

\* the loop of lines 584-602
RECURSIVE SizedLoop(_, _, _, _, _, _)
SizedLoop(rows, i, allColours, fallback, seen, out) ==
  IF i > Len(rows) THEN out
  ELSE LET r        == rows[i]
           colorVal == colorValOf(r, allColours)
           key      == colorVal \o "|||" \o r.size
           eur      == IF r.priceEur # NULL_EUR THEN r.priceEur ELSE fallback
       IN  IF r.size = NULL \/ r.size = "" \/ key \in seen
           THEN SizedLoop(rows, i + 1, allColours, fallback, seen, out)
           ELSE SizedLoop(rows, i + 1, allColours, fallback, seen \cup {key},
                          Append(out, SizedVariant(colorVal, r.size, eur)))

\* lines 580-622 with colourValues = allColours (no "Default" value)
BuildWithoutDefault(p, pageColours, fallback, priceMap) ==
  LET allColours == allColoursOf(p, pageColours)
  IN  IF Len(p.sizes) > 0
      THEN [options  |-> << [name |-> "Colour", values |-> allColours],
                            [name |-> "Size", values |-> p.sizes] >>,
            variants |-> SizedLoop(p.rows, 1, allColours, fallback, {}, <<>>)]
      ELSE [options  |-> << [name |-> "Colour", values |-> allColours] >>,
            variants |-> [i \in 1..Len(allColours) |->
                           LET color == allColours[i]
                               eur   == IF color \in DOMAIN priceMap /\ priceMap[color] # NULL_EUR
                                        THEN priceMap[color] ELSE fallback
                           IN  ColourVariant(color, eur)]]

\* lines 580-622
BuildOptionsAndVariants(p, pageColours, fallback, priceMap) ==
  LET allColours == allColoursOf(p, pageColours)
  IN  IF Len(p.sizes) > 0
      THEN [options  |-> << [name |-> "Colour", values |-> allColours],
                            [name |-> "Size", values |-> p.sizes] >>,
            variants |-> SizedLoop(p.rows, 1, allColours, fallback, {}, <<>>)]
      ELSE LET colourValues == IF Len(allColours) > 0 THEN allColours ELSE <<"Default">>
           IN  [options  |-> << [name |-> "Colour", values |-> colourValues] >>,
                variants |-> [i \in 1..Len(colourValues) |->
                               LET color == colourValues[i]
                                   eur   == IF color \in DOMAIN priceMap /\ priceMap[color] # NULL_EUR
                                            THEN priceMap[color] ELSE fallback
                               IN  ColourVariant(color, eur)]]

(***************************************************************************)
(* Inputs                                                                  *)
(***************************************************************************)
MaxNodes == 3
MaxEurCents == 3800

ColourNames == {"Negru", "Rosu"}
SizeNames == {"M", "110mm"}
RowAmounts == {NULL_EUR, 3800}
TextAmounts == {2000}
FallbackAmounts == {NULL_EUR, 4500}

Nodes ==
  {Header(c) : c \in ColourNames}
  \cup {Row(sz, eur) : sz \in SizeNames, eur \in RowAmounts}
  \cup {Text(eur) : eur \in TextAmounts}

SeqsUpTo(S, n) == UNION {[1..k -> S] : k \in 0..n}

\* step 6 returns Array.from(new Set(...)): no colour twice
PageColourLists == {<<>>, <<"Rosu">>, <<"Alb", "Negru">>}

(***************************************************************************)
(* Steps 9-11 of the handler                                               *)
(***************************************************************************)
\* step 9
ParseRows ==
  /\ pc = "parse"
  /\ parsed' = ParseVariantRows(dom, popupFrom)
  /\ pc' = "prices"
  /\ UNCHANGED <<status, fullText, productTitle, searchTerm, detectedVendor, detectedType,
                 colours, highestEuroOnPage, dom, popupFrom, colourPriceMap, options,
                 variants, finalTitle, response, handlerVars>>

\* lines 512-577
DeriveColourPrices ==
  /\ pc = "prices"
  /\ colourPriceMap' = ColourPriceMapOf(dom, popupFrom, parsed)
  /\ pc' = "build"
  /\ UNCHANGED <<status, fullText, productTitle, searchTerm, detectedVendor, detectedType,
                 colours, highestEuroOnPage, dom, popupFrom, parsed, options,
                 variants, finalTitle, response, handlerVars>>

\* lines 580-622
BuildVariants ==
  /\ pc = "build"
  /\ LET built == BuildOptionsAndVariants(parsed, colours, highestEuroOnPage, colourPriceMap)
     IN  /\ options' = built.options
         /\ variants' = built.variants
  /\ pc' = "describe"
  /\ UNCHANGED <<status, fullText, productTitle, searchTerm, detectedVendor, detectedType,
                 colours, highestEuroOnPage, dom, popupFrom, parsed, colourPriceMap,
                 finalTitle, response, handlerVars>>

NoParse == [colours |-> <<>>, sizes |-> <<>>, rows |-> <<>>]

\* the variables a specification does not draw
Blank ==
  /\ status = {}
  /\ response = NULL
  /\ credentials = {}
  /\ err = NULL
  /\ waitTimedOut = FALSE
  /\ specs_html = NULL
  /\ titleTypeForDisplay = ""
  /\ finalImageUrls = <<>>
  /\ fetchable = {}
  /\ imgIndex = 0
  /\ processedImages = <<>>
  /\ files = <<>>
  /\ otherImageUrls = <<>>
  /\ otherIndex = 0

BlankText ==
  /\ fullText = ""
  /\ productTitle = ""
  /\ searchTerm = ""
  /\ detectedVendor = NULL
  /\ detectedType = ""
  /\ finalTitle = ""

BlankPage ==
  /\ colours = <<>>
  /\ highestEuroOnPage = NULL_EUR
  /\ dom = <<>>
  /\ popupFrom = 0

BlankVariants ==
  /\ parsed = NoParse
  /\ colourPriceMap = EmptyMap
  /\ options = <<>>
  /\ variants = <<>>

\* Variant assembly over every page of at most MaxNodes nodes
InitVariants ==
  /\ pc = "parse"
  /\ Blank /\ BlankText /\ BlankVariants
  /\ dom \in SeqsUpTo(Nodes, MaxNodes)
  /\ popupFrom \in 0..Len(dom)
  /\ colours \in PageColourLists
  /\ highestEuroOnPage \in FallbackAmounts

NextVariants == ParseRows \/ DeriveColourPrices \/ BuildVariants

SpecVariants == InitVariants /\ [][NextVariants]_vars

\* The pricing rule over every amount up to MaxEurCents, on a page that shows
\* no colour and no size (the Default shape: one variant, fallback amount)
InitPrice ==
  /\ pc = "parse"
  /\ Blank /\ BlankText /\ BlankVariants
  /\ dom = <<>>
  /\ popupFrom = 0
  /\ colours = <<>>
  /\ highestEuroOnPage \in {NULL_EUR} \cup 0..MaxEurCents

SpecPrice == InitPrice /\ [][NextVariants]_vars

\* The pricing rule on two rows of one page that show the amounts a <= b
MaxPairCents == 500

InitMonotone ==
  /\ pc = "parse"
  /\ Blank /\ BlankText /\ BlankVariants
  /\ \E a \in 0..MaxPairCents, b \in 0..MaxPairCents :
       a <= b /\ dom = <<Row("M", a), Row("110mm", b)>>
  /\ popupFrom = 0
  /\ colours = <<>>
  /\ highestEuroOnPage = NULL_EUR

SpecMonotone == InitMonotone /\ [][NextVariants]_vars

(***************************************************************************)
(* The classifiers and the title builder on bounded texts: up to Max*Words *)
(* words of a vocabulary, joined by one separator                          *)
(***************************************************************************)
MaxVendorWords == 2
MaxTypeWords == 2
MaxTitleWords == 3

TextsFrom(words, seps, n) == {Join(ws, sep) : ws \in SeqsUpTo(words, n), sep \in seps}

VendorWords ==
  {"Root", "Root Industries", "Drone", "Drone Scooters", "roo~t INDUSTRIES", "Scooters",
   "Tilted"}
VendorTexts == TextsFrom(VendorWords, {" ", "-", ""}, MaxVendorWords)

TypeWords == {"SCS", "Clema~", "Bolt", "Grips", "Grips Bolt", "Top Cap", "Deck", "Peg"}
TypeTexts == TextsFrom(TypeWords, {" ", "_"}, MaxTypeWords)

TitleWords == {"Tilt", "tilt,", "Deck", "Rot~i", "ROTI", "-"}
TitleTexts ==
  {pad \o t \o pad : t \in TextsFrom(TitleWords, {" ", "  "}, MaxTitleWords),
                     pad \in {"", " "}}
\* (titleTypeForDisplay, detectedVendor)
TitleHeads == {<<"Deck", "Tilt">>, <<"", NULL>>}

\* detectVendor(fullText)
CallDetectVendor ==
  /\ pc = "detectVendor"
  /\ detectedVendor' = detectVendor(fullText)
  /\ pc' = "vendor"
  /\ UNCHANGED <<status, fullText, productTitle, searchTerm, detectedType, colours,
                 highestEuroOnPage, dom, popupFrom, parsed, colourPriceMap, options,
                 variants, finalTitle, response, handlerVars>>

InitVendor ==
  /\ pc = "detectVendor"
  /\ Blank /\ BlankPage /\ BlankVariants
  /\ fullText \in VendorTexts
  /\ productTitle = ""
  /\ searchTerm = ""
  /\ detectedVendor = NULL
  /\ detectedType = ""
  /\ finalTitle = ""

SpecVendor == InitVendor /\ [][CallDetectVendor]_vars

\* detectProductType(fullText)
CallDetectProductType ==
  /\ pc = "detectProductType"
  /\ detectedType' = detectProductType(fullText)
  /\ pc' = "type"
  /\ UNCHANGED <<status, fullText, productTitle, searchTerm, detectedVendor, colours,
                 highestEuroOnPage, dom, popupFrom, parsed, colourPriceMap, options,
                 variants, finalTitle, response, handlerVars>>

InitType ==
  /\ pc = "detectProductType"
  /\ Blank /\ BlankPage /\ BlankVariants
  /\ fullText \in TypeTexts
  /\ productTitle = ""
  /\ searchTerm = ""
  /\ detectedVendor = NULL
  /\ detectedType = ""
  /\ finalTitle = ""

SpecType == InitType /\ [][CallDetectProductType]_vars

\* dedupeTitleWords(searchTerm)
CallDedupeTitleWords ==
  /\ pc = "title"
  /\ finalTitle' = dedupeTitleWords(searchTerm)
  /\ pc' = "deduped"
  /\ UNCHANGED <<status, fullText, productTitle, searchTerm, detectedVendor, detectedType,
                 colours, highestEuroOnPage, dom, popupFrom, parsed, colourPriceMap,
                 options, variants, response, handlerVars>>

\* buildTitle(titleTypeForDisplay, detectedVendor, searchTerm)
CallBuildTitle ==
  /\ pc = "title"
  /\ finalTitle' = buildTitle(detectedType, detectedVendor, searchTerm)
  /\ pc' = "titled"
  /\ UNCHANGED <<status, fullText, productTitle, searchTerm, detectedVendor, detectedType,
                 colours, highestEuroOnPage, dom, popupFrom, parsed, colourPriceMap,
                 options, variants, response, handlerVars>>

InitTitle ==
  /\ pc = "title"
  /\ Blank /\ BlankPage /\ BlankVariants
  /\ fullText = ""
  /\ productTitle = ""
  /\ searchTerm \in TitleTexts
  /\ \E head \in TitleHeads : detectedType = head[1] /\ detectedVendor = head[2]
  /\ finalTitle = ""

NextTitle == CallDedupeTitleWords \/ CallBuildTitle

SpecTitle == InitTitle /\ [][NextTitle]_vars

(***************************************************************************)
(* The handler of POST /scrape-product-images, step by step                *)
(***************************************************************************)
\* a || b on strings: the empty string and null are falsy
OrElse(a, b) == IF a = NULL \/ a = "" THEN b ELSE a

\* s.replace(/\b<items>\b/gi, ""), from position pos on
RECURSIVE RemoveMatches(_, _, _)
RemoveMatches(items, s, pos) ==
  IF pos > Len(s) THEN ""
  ELSE LET t    == toLowerCase(s)
           ends == {e \in MatchEnds(t, {pos}, items) : e > pos /\ WordBoundary(t, e)}
       IN  IF WordBoundary(t, pos) /\ ends # {}
           THEN RemoveMatches(items, s, CHOOSE e \in ends : \A f \in ends : e >= f)
           ELSE CharAt(s, pos) \o RemoveMatches(items, s, pos + 1)

\* s.replace(/\s*\(Culoare:[^)]+?\)\s*$/i, "")
StripColourSuffix(s) ==
  LET t      == toLowerCase(s)
      opens  == {p \in 1..Len(t) :
                   /\ p + 8 <= Len(t)
                   /\ SubSeq(t, p, p + 8) = "(culoare:"
                   /\ \E c \in (p + 10)..Len(t) :
                        /\ CharAt(t, c) = ")"
                        /\ \A k \in (p + 9)..(c - 1) : CharAt(t, k) # ")"
                        /\ \A k \in (c + 1)..Len(t) : IsSpace(CharAt(t, k))}
  IN  IF opens = {} THEN s
      ELSE LET p == CHOOSE q \in opens : \A r \in opens : q <= r
               start == CHOOSE q \in 1..p :
                          /\ \A k \in q..(p - 1) : IsSpace(CharAt(t, k))
                          /\ (q = 1 \/ ~IsSpace(CharAt(t, q - 1)))
           IN  SubSeq(s, 1, start - 1)

\* (s||"").replace(/\s+/g," ").replace(/\bzoom[_-]?in\b/gi,"")
\*        .replace(/\s*\(Culoare:[^)]+?\)\s*$/i,"").trim()
cleanTitle(s) ==
  LET collapsed == CollapseSpaces(IF s = NULL THEN "" ELSE s)
      unzoomed  == RemoveMatches(<<L("zoom"), OC("_-"), L("in")>>, collapsed, 1)
  IN  Trim(StripColourSuffix(unzoomed))

\* (s||"").normalize("NFD").replace(/[U+0300-U+036F]/g,"").toLowerCase()
normLower(s) == toLowerCase(stripDiacritics(s))

\* specsStr.includes(normLower("Inaltime Ghidon")) && specsStr.includes(normLower("Lungime Deck"))
\* (the first literal carries three diacritics in the source)
isCompleteScooter(specs) ==
  LET specsStr == normLower(specs)
  IN  /\ Includes(specsStr, normLower("I~na~lt~ime Ghidon"))
      /\ Includes(specsStr, normLower("Lungime Deck"))

\* step 13 with the title rule applied to the classifier's own result
PostProcessSCSOnClassified(classified, specs, title) ==
  LET complete == isCompleteScooter(specs)
  IN  [detectedType        |-> IF complete THEN "Complete" ELSE classified,
       titleTypeForDisplay |-> IF classified = "Clamp" /\ isSCS(title) THEN "SCS"
                               ELSE IF complete THEN "Trotineta" ELSE classified]

\* step 13: the Complete override, then the SCS display rule
PostProcess(classified, specs, title) ==
  LET complete == isCompleteScooter(specs)
      type     == IF complete THEN "Complete" ELSE classified
      display  == IF complete THEN "Trotineta" ELSE classified
  IN  [detectedType        |-> type,
       titleTypeForDisplay |-> IF type = "Clamp" /\ isSCS(title) THEN "SCS" ELSE display]

\* processed_<idx>.jpg, named by the position in the request's own list
outFile(idx) == idx

\* the processed directory after fs.writeFileSync(outPath, processed)
WriteFile(dir, name, content) == Put(dir, name, content)

\* processImage(url, idx, baseUrl): the URL of the stored file, or null when
\* the fetch or the transform failed; ok says whether they succeed
processImage(dir, url, idx, ok) ==
  IF ok THEN [dir |-> WriteFile(dir, outFile(idx), url), url |-> <<outFile(idx)>>]
  ELSE [dir |-> dir, url |-> <<>>]

\* no response sent yet
NoResponse == [code |-> 0, keys |-> {}]

\* res.status(400).json({ error: "Missing required fields" })
BadRequest == [code |-> 400, keys |-> {"error"}, error |-> "Missing required fields"]

\* an error response that also carries the record built so far
ErrorResponseWithRecord(e, st) ==
  [code |-> 500, keys |-> {"success", "error", "status", "title", "options", "variants"},
   success |-> FALSE, error |-> e, status |-> st, title |-> finalTitle,
   options |-> options, variants |-> variants]

\* res.status(500).json({ success: false, error: err.message, status })
ErrorResponse(e, st) ==
  [code |-> 500, keys |-> {"success", "error", "status"}, success |-> FALSE,
   error |-> e, status |-> st]

\* the framework's own answer to an error the handler did not catch
FrameworkError == [code |-> 500, keys |-> {}]

\* res.json({ success: true, imageUrls, colours, sizes, count, options, ... })
Success ==
  [code |-> 200,
   keys |-> {"success", "imageUrls", "colours", "sizes", "count", "options", "variants",
             "description_html", "specs_html", "title", "product_type", "status"}
            \cup (IF OrElse(detectedVendor, "") # "" THEN {"vendor", "tag"} ELSE {}),
   success |-> TRUE,
   imageUrls |-> processedImages,
   colours |-> allColoursOf(parsed, colours),
   sizes |-> parsed.sizes,
   count |-> Len(finalImageUrls),
   options |-> options,
   variants |-> variants,
   specs_html |-> specs_html,
   title |-> finalTitle,
   product_type |-> OrElse(detectedType, ""),
   status |-> status]

MaxImages == 2

\* what the pages of a request show: (dom, popupFrom), body text, title
\* element, specification block, colours of the main page
SpecPages ==
  { [dom |-> <<>>, popupFrom |-> 0],
    [dom |-> <<Row("M", 3800)>>, popupFrom |-> 0],
    [dom |-> <<Header("Negru"), Row("M", NULL_EUR)>>, popupFrom |-> 1] }
SpecFullTexts == {"SCS Clamp Tilt", "Tilt Deck", ""}
SpecRawTitles == {"Clamp SCS zoom_in (Culoare: Negru)", "Clamp Tilt"}
SpecSpecs == {NULL, "I~na~lt~ime ghidon: 60 Lungime Deck: 50", "Lungime Deck: 50"}
SpecColourLists == {<<>>, <<"Rosu">>}
Fields == {"email", "password"}

\* the image URLs of this request are 1, 2, ...; those of the other request
\* 101, 102, ...
ImageLists == {[k \in 1..n |-> k] : n \in 0..MaxImages}
OtherImageLists == {[k \in 1..n |-> 100 + k] : n \in 1..MaxImages}

\* "#product_popup .variant_list .row" is in the document
PopupHasRow(nodes, from) ==
  from > 0 /\ \E k \in from..Len(nodes) : nodes[k].kind = "row"

\* the steps of the try block that await the browser
FallibleSteps ==
  {"login", "search", "open", "detect", "colours", "highest", "parse", "prices",
   "describe", "overlay"}

pageVars == <<fullText, productTitle, detectedVendor, detectedType, colours,
              highestEuroOnPage, dom, popupFrom, parsed, colourPriceMap, options,
              variants, finalTitle>>
imageVars == <<finalImageUrls, fetchable, imgIndex, processedImages>>
otherVars == <<otherImageUrls, otherIndex>>

\* lines 255-259
Validate ==
  /\ pc = "validate"
  /\ IF credentials # Fields \/ searchTerm = ""
     THEN response' = BadRequest /\ pc' = "done"
     ELSE response' = response /\ pc' = "launch"
  /\ UNCHANGED <<status, searchTerm, pageVars, credentials, err, waitTimedOut, specs_html,
                 titleTypeForDisplay, imageVars, files, otherVars>>

\* lines 261-267: puppeteer.launch and browser.newPage resolve
LaunchBrowser ==
  /\ pc = "launch"
  /\ pc' = "login"
  /\ UNCHANGED <<status, searchTerm, pageVars, response, handlerVars>>

\* lines 261-267: puppeteer.launch or browser.newPage rejects, outside the
\* try block: the promise of the handler rejects, and the framework either
\* never answers ("rejected") or answers by itself ("unhandled")
LaunchRejects ==
  /\ pc = "launch"
  /\ pc' \in {"rejected", "unhandled"}
  /\ UNCHANGED <<status, searchTerm, pageVars, response, handlerVars>>

FrameworkAnswers ==
  /\ pc = "unhandled"
  /\ response' = FrameworkError
  /\ pc' = "done"
  /\ UNCHANGED <<status, searchTerm, pageVars, handlerVars>>

\* step 1
Login ==
  /\ pc = "login"
  /\ status' = status \cup {"login"}
  /\ pc' = "search"
  /\ UNCHANGED <<searchTerm, pageVars, response, handlerVars>>

\* step 2
Search ==
  /\ pc = "search"
  /\ status' = status \cup {"search"}
  /\ pc' = "open"
  /\ UNCHANGED <<searchTerm, pageVars, response, handlerVars>>

\* step 3: the product page opens
OpenProduct ==
  /\ pc = "open"
  /\ \E page \in SpecPages : dom' = page.dom /\ popupFrom' = page.popupFrom
  /\ status' = status \cup {"productClick"}
  /\ pc' = "detect"
  /\ UNCHANGED <<searchTerm, fullText, productTitle, detectedVendor, detectedType, colours,
                 highestEuroOnPage, parsed, colourPriceMap, options, variants, finalTitle,
                 response, handlerVars>>

\* an awaited browser call of the try block rejects (in step 3 also: no
\* product found)
StepFails ==
  /\ pc \in FallibleSteps
  /\ err' = pc
  /\ pc' = "catch"
  /\ UNCHANGED <<status, searchTerm, pageVars, response, credentials, waitTimedOut,
                 specs_html, titleTypeForDisplay, imageVars, files, otherVars>>

\* step 4
Detect ==
  /\ pc = "detect"
  /\ \E text \in SpecFullTexts, rawTitle \in SpecRawTitles :
       LET title == cleanTitle(rawTitle)
       IN  /\ fullText' = text
           /\ productTitle' = title
           /\ detectedVendor' = OrElse(detectVendor(text), OrElse(detectVendor(title), NULL))
           /\ detectedType' = OrElse(detectProductType(text),
                                     OrElse(detectProductType(title), ""))
  /\ pc' = "colours"
  /\ UNCHANGED <<status, searchTerm, colours, highestEuroOnPage, dom, popupFrom, parsed,
                 colourPriceMap, options, variants, finalTitle, response, handlerVars>>

\* steps 5-6
ReadColours ==
  /\ pc = "colours"
  /\ colours' \in SpecColourLists
  /\ pc' = "wait"
  /\ UNCHANGED <<status, searchTerm, fullText, productTitle, detectedVendor, detectedType,
                 highestEuroOnPage, dom, popupFrom, parsed, colourPriceMap, options,
                 variants, finalTitle, response, handlerVars>>

\* a wait whose timeout is thrown into the catch block
SoftWaitThrows ==
  /\ pc = "wait"
  /\ waitTimedOut' \in (IF PopupHasRow(dom, popupFrom) THEN {FALSE, TRUE} ELSE {TRUE})
  /\ pc' = IF waitTimedOut' THEN "catch" ELSE "highest"
  /\ err' = IF waitTimedOut' THEN "wait" ELSE err
  /\ UNCHANGED <<status, searchTerm, pageVars, response, credentials, specs_html,
                 titleTypeForDisplay, imageVars, files, otherVars>>

\* step 7: waitForSelector(..., { timeout: 5000 }).catch(() => {})
SoftWait ==
  /\ pc = "wait"
  /\ waitTimedOut' \in (IF PopupHasRow(dom, popupFrom) THEN {FALSE, TRUE} ELSE {TRUE})
  /\ pc' = "highest"
  /\ UNCHANGED <<status, searchTerm, pageVars, response, credentials, err, specs_html,
                 titleTypeForDisplay, imageVars, files, otherVars>>

\* step 8
ReadHighestEuro ==
  /\ pc = "highest"
  /\ highestEuroOnPage' \in FallbackAmounts
  /\ pc' = "parse"
  /\ UNCHANGED <<status, searchTerm, fullText, productTitle, detectedVendor, detectedType,
                 colours, dom, popupFrom, parsed, colourPriceMap, options, variants,
                 finalTitle, response, handlerVars>>

\* step 12
Describe ==
  /\ pc = "describe"
  /\ specs_html' \in SpecSpecs
  /\ pc' = "post"
  /\ UNCHANGED <<status, searchTerm, pageVars, response, credentials, err, waitTimedOut,
                 titleTypeForDisplay, imageVars, files, otherVars>>

\* step 13
PostProcessing ==
  /\ pc = "post"
  /\ LET post == PostProcess(detectedType, specs_html, productTitle)
     IN  /\ detectedType' = post.detectedType
         /\ titleTypeForDisplay' = post.titleTypeForDisplay
         /\ finalTitle' = buildTitle(post.titleTypeForDisplay, detectedVendor, searchTerm)
  /\ pc' = "overlay"
  /\ UNCHANGED <<status, searchTerm, fullText, productTitle, detectedVendor, colours,
                 highestEuroOnPage, dom, popupFrom, parsed, colourPriceMap, options,
                 variants, response, credentials, err, waitTimedOut, specs_html,
                 imageVars, files, otherVars>>

\* step 14, up to the start of the image loop: the list of image URLs
\* (thumbnail first), and which of them can be fetched and transformed
CollectImages ==
  /\ pc = "overlay"
  /\ finalImageUrls' \in ImageLists
  /\ fetchable' \in SUBSET Range(finalImageUrls')
  /\ imgIndex' = 0
  /\ processedImages' = <<>>
  /\ pc' = "images"
  /\ UNCHANGED <<status, searchTerm, pageVars, response, credentials, err, waitTimedOut,
                 specs_html, titleTypeForDisplay, files, otherVars>>

\* a loop that gives up at the first image that fails
ProcessNextImageStopsAtFailure ==
  /\ pc = "images"
  /\ imgIndex < Len(finalImageUrls)
  /\ LET url       == finalImageUrls[imgIndex + 1]
         processed == processImage(files, url, imgIndex, url \in fetchable)
     IN  /\ files' = processed.dir
         /\ processedImages' = processedImages \o processed.url
         /\ imgIndex' = IF url \in fetchable THEN imgIndex + 1 ELSE Len(finalImageUrls)
  /\ UNCHANGED <<pc, status, searchTerm, pageVars, response, credentials, err,
                 waitTimedOut, specs_html, titleTypeForDisplay, finalImageUrls, fetchable,
                 otherVars>>

\* one turn of the loop of lines 724-729
ProcessNextImage ==
  /\ pc = "images"
  /\ imgIndex < Len(finalImageUrls)
  /\ LET url       == finalImageUrls[imgIndex + 1]
         processed == processImage(files, url, imgIndex, url \in fetchable)
     IN  /\ files' = processed.dir
         /\ processedImages' = processedImages \o processed.url
  /\ imgIndex' = imgIndex + 1
  /\ UNCHANGED <<pc, status, searchTerm, pageVars, response, credentials, err,
                 waitTimedOut, specs_html, titleTypeForDisplay, finalImageUrls, fetchable,
                 otherVars>>

\* step 15
Respond ==
  /\ pc = "images"
  /\ imgIndex = Len(finalImageUrls)
  /\ response' = Success
  /\ pc' = "done"
  /\ UNCHANGED <<status, searchTerm, pageVars, handlerVars>>

\* lines 750-754
Catch ==
  /\ pc = "catch"
  /\ response' = ErrorResponse(err, status)
  /\ pc' = "done"
  /\ UNCHANGED <<status, searchTerm, pageVars, handlerVars>>

\* one turn of the image loop of another request of the same process
OtherProcessNextImage ==
  /\ otherIndex < Len(otherImageUrls)
  /\ \E ok \in BOOLEAN :
       files' = processImage(files, otherImageUrls[otherIndex + 1], otherIndex, ok).dir
  /\ otherIndex' = otherIndex + 1
  /\ UNCHANGED <<pc, status, searchTerm, pageVars, response, credentials, err,
                 waitTimedOut, specs_html, titleTypeForDisplay, imageVars, otherImageUrls>>

Init ==
  /\ pc = "validate"
  /\ status = {}
  /\ response = NoResponse
  /\ credentials \in {Fields, {"email"}}
  /\ searchTerm \in {"", "Tilt Deck"}
  /\ fullText = ""
  /\ productTitle = ""
  /\ detectedVendor = NULL
  /\ detectedType = ""
  /\ finalTitle = ""
  /\ BlankPage /\ BlankVariants
  /\ err = NULL
  /\ waitTimedOut = FALSE
  /\ specs_html = NULL
  /\ titleTypeForDisplay = ""
  /\ finalImageUrls = <<>>
  /\ fetchable = {}
  /\ imgIndex = 0
  /\ processedImages = <<>>
  /\ files = EmptyMap
  /\ otherImageUrls \in OtherImageLists
  /\ otherIndex = 0

HandlerNext ==
  \/ Validate \/ LaunchBrowser \/ LaunchRejects \/ FrameworkAnswers
  \/ Login \/ Search \/ OpenProduct \/ StepFails
  \/ Detect \/ ReadColours \/ SoftWait \/ ReadHighestEuro
  \/ ParseRows \/ DeriveColourPrices \/ BuildVariants
  \/ Describe \/ PostProcessing \/ CollectImages \/ ProcessNextImage
  \/ Respond \/ Catch

Next == HandlerNext \/ OtherProcessNextImage

Spec == Init /\ [][Next]_vars

\* every awaited step settles, and the event loop runs the handler on
FairSpec == Spec /\ WF_vars(HandlerNext)

(***************************************************************************)
(* Properties of the option / variant assembly (SpecVariants)              *)
(***************************************************************************)
Assembled == pc = "describe"
Sized == Len(parsed.sizes) > 0

\* the colour a row counts under: its own, else the first declared colour,
\* else "Default"
EffectiveColour(r) ==
  IF r.color # NULL THEN r.color
  ELSE IF Len(options[1].values) > 0 THEN options[1].values[1] ELSE "Default"

EffectivePair(r) == <<EffectiveColour(r), r.size>>
RawPair(r) == <<r.color, r.size>>
PairOf(r, effective) == IF effective THEN EffectivePair(r) ELSE RawPair(r)

\* the k-th smallest element of a set of numbers
KthOf(S, k) == CHOOSE j \in S : Cardinality({m \in S : m < j}) = k - 1

\* the rows that are the first to carry their pair
FirstRows(effective) ==
  {j \in 1..Len(parsed.rows) :
     \A k \in 1..(j - 1) :
       PairOf(parsed.rows[k], effective) # PairOf(parsed.rows[j], effective)}

RowAmountOrFallback(r) ==
  IF r.priceEur # NULL_EUR THEN r.priceEur ELSE highestEuroOnPage

\* one variant per distinct pair, in order of first occurrence, priced from
\* the first row that carries the pair
OneVariantPerPair(effective) ==
  LET firsts == FirstRows(effective)
  IN  /\ Len(variants) = Cardinality(firsts)
      /\ \A i \in 1..Len(variants) :
            i <= Cardinality(firsts) =>
              LET r == parsed.rows[KthOf(firsts, i)]
              IN  /\ <<variants[i].option1, variants[i].option2>> = PairOf(r, effective)
                  /\ variants[i].price = toRON99_99(RowAmountOrFallback(r))
      /\ \A i, k \in 1..Len(variants) :
            i # k => <<variants[i].option1, variants[i].option2>>
                       # <<variants[k].option1, variants[k].option2>>

\* C1: in every assembled record, every variant's option1 is one of the
\* values of the declared Colour option and, when a Size option is declared,
\* its option2 is one of the values of the Size option.
C1_OptionValuesDeclared ==
  Assembled =>
    \A i \in 1..Len(variants) :
      /\ options[1].name = "Colour"
      /\ variants[i].option1 \in Range(options[1].values)
      /\ Len(options) > 1 =>
            /\ options[2].name = "Size"
            /\ variants[i].option2 \in Range(options[2].values)

\* C2 (as stated): in the Sized shape there is exactly one variant for each
\* distinct (colour, size) pair of the rows as parsed, taken from the first
\* row that carries the pair and priced from that row or the fallback.
\* (Stated for the pages whose headers show at least one colour, where C1
\* holds.)
C2_OneVariantPerRowPair ==
  (Assembled /\ Sized /\ parsed.colours # <<>>) => OneVariantPerPair(FALSE)

\* C2 (amended): in the Sized shape there is exactly one variant for each
\* distinct (colour, size) pair of the rows, where a row without a colour
\* counts under the first declared colour ("Default" when there is none);
\* the variant comes from the first row that carries the pair, no two
\* variants share (option1, option2), and the price is convert(row amount)
\* when the row has one, else convert(page-wide fallback amount).
C2_OneVariantPerEffectivePair ==
  (Assembled /\ Sized) => OneVariantPerPair(TRUE)

\* under an observed colour a later row repeats the pair of an earlier row
\* with another amount, and fewer variants than rows were emitted
C2_Witness ==
  /\ Assembled /\ Sized
  /\ parsed.colours # <<>>
  /\ Len(variants) < Len(parsed.rows)
  /\ \E j, k \in 1..Len(parsed.rows) :
        /\ j < k
        /\ EffectivePair(parsed.rows[j]) = EffectivePair(parsed.rows[k])
        /\ parsed.rows[j].priceEur # parsed.rows[k].priceEur

\* the source amount of variant i: its first row's amount (Sized), its
\* colour's amount in the colour -> price map (otherwise)
OwnAmount(i) ==
  IF Sized
  THEN LET firsts == FirstRows(TRUE)
           j == CHOOSE j \in firsts :
                  EffectivePair(parsed.rows[j]) = <<variants[i].option1, variants[i].option2>>
       IN  parsed.rows[j].priceEur
  ELSE IF variants[i].option1 \in DOMAIN colourPriceMap
       THEN colourPriceMap[variants[i].option1] ELSE NULL_EUR

ExpectedVariantCount ==
  IF Sized THEN Cardinality(FirstRows(TRUE)) ELSE Len(options[1].values)

\* C3: a variant's price is null exactly when it has no amount of its own
\* and there is no page-wide fallback amount; no price is "0.00"; and the
\* variants without a price are emitted along with all the others.
C3_PriceAbsentIffNoAmount ==
  Assembled =>
    /\ \A i \in 1..Len(variants) :
          /\ variants[i].price = NULL
                <=> (OwnAmount(i) = NULL_EUR /\ highestEuroOnPage = NULL_EUR)
          /\ variants[i].price # "0.00"
    /\ Len(variants) = ExpectedVariantCount

\* one variant without a price next to one with a price
C3_Witness ==
  /\ Assembled
  /\ \E i, k \in 1..Len(variants) :
        /\ variants[i].price = NULL
        /\ OwnAmount(i) = NULL_EUR
        /\ variants[k].price # NULL

\* the amount a colour-only variant is priced from
MapAmountOrFallback(c) ==
  IF c \in DOMAIN colourPriceMap /\ colourPriceMap[c] # NULL_EUR
  THEN colourPriceMap[c] ELSE highestEuroOnPage

\* the colours observed: those of the parsed rows and headers, else those of
\* the main page
ObservedColours == IF parsed.colours # <<>> THEN parsed.colours ELSE colours

\* C10: when no size was observed, options is exactly [Colour] whose values
\* are the distinct observed colours, or the single value "Default" when no
\* colour was observed; there is exactly one variant per value, priced
\* convert(map amount) when the map holds an amount for the colour, else
\* convert(fallback amount); and no assembled record has an empty variants
\* list.
C10_ColourOnlyShape ==
  Assembled =>
    /\ Len(variants) >= 1
    /\ ~Sized =>
          LET values == IF ObservedColours # <<>> THEN ObservedColours ELSE <<"Default">>
          IN  /\ options = << [name |-> "Colour", values |-> values] >>
              /\ \A i, k \in 1..Len(values) : i # k => values[i] # values[k]
              /\ Len(variants) = Len(values)
              /\ \A i \in 1..Len(variants) :
                    /\ variants[i].option1 = values[i]
                    /\ "option2" \notin DOMAIN variants[i]
                    /\ variants[i].price = toRON99_99(MapAmountOrFallback(values[i]))

\* two colours without sizes, one priced from the map and one from the fallback
C10_Witness ==
  /\ Assembled /\ ~Sized
  /\ Len(variants) = 2
  /\ \E i, k \in 1..2 :
        /\ variants[i].option1 \in DOMAIN colourPriceMap
        /\ colourPriceMap[variants[i].option1] # NULL_EUR
        /\ variants[i].price = toRON99_99(colourPriceMap[variants[i].option1])
        /\ colourPriceMap[variants[k].option1] = NULL_EUR
        /\ variants[k].price = toRON99_99(highestEuroOnPage)
        /\ highestEuroOnPage # NULL_EUR

\* neither colour nor size: the synthetic Default variant
C10_WitnessDefault ==
  /\ Assembled /\ ~Sized
  /\ ObservedColours = <<>>
  /\ variants[1].option1 = "Default"

(***************************************************************************)
(* Properties of the pricing rule (SpecPrice)                              *)
(***************************************************************************)
\* C4: for every present amount the price is 5 * ceil(amount * 4.97 / 5) -
\* 0.01 with two decimals, so it ends in ".99"; 38.00 EUR gives "189.99".
C4_PriceEndsIn99 ==
  (Assembled /\ highestEuroOnPage # NULL_EUR) =>
    LET price == variants[1].price
    IN  /\ Len(price) >= 4
        /\ SubSeq(price, Len(price) - 2, Len(price)) = ".99"
        /\ highestEuroOnPage = 3800 => price = "189.99"

(***************************************************************************)
(* Properties of detectVendor (SpecVendor)                                 *)
(***************************************************************************)
\* the catalog names S, L where S is a proper substring of L
NestedVendorPairs ==
  {pair \in Range(VENDORS) \X Range(VENDORS) :
     pair[1] # pair[2] /\ Includes(pair[2], pair[1])}

\* the positions in VENDORS of the names that text contains as whole words
MatchingVendors(text) ==
  LET hay == Haystack(text)
  IN  {i \in 1..Len(VENDORS) : HaystackHasWord(hay, VENDORS[i])}

SortedByLengthDesc(list) ==
  \A i \in 1..(Len(list) - 1) : Len(list[i]) >= Len(list[i + 1])

\* C5 (as stated): when the text contains, as whole words, a catalog name
\* that has another catalog name as a substring, that longer name is returned.
C5_LongerNameReturned ==
  pc = "vendor" =>
    LET matching == MatchingVendors(fullText)
    IN  \A pair \in NestedVendorPairs :
          (\E i \in matching : VENDORS[i] = pair[2]) => detectedVendor = pair[2]

\* C5 (amended): detectVendor returns the first catalog name, in descending
\* name-length order, that is a whole-word match in the normalized text, and
\* null if none matches; hence no matching name is longer than the result,
\* and when the text contains the longer of two nested names the shorter is
\* never returned (the result is the longer name or another matching name
\* that precedes it in the descending-length order).
C5_FirstLongestMatch ==
  pc = "vendor" =>
    LET matching == MatchingVendors(fullText)
    IN  /\ SortedByLengthDesc(VENDORS)
        /\ (matching = {}) <=> (detectedVendor = NULL)
        /\ matching # {} =>
              /\ detectedVendor = VENDORS[KthOf(matching, 1)]
              /\ \A i \in matching : Len(VENDORS[i]) <= Len(detectedVendor)
        /\ \A pair \in NestedVendorPairs :
              (\E i \in matching : VENDORS[i] = pair[2]) =>
                /\ detectedVendor # pair[1]
                /\ Len(detectedVendor) >= Len(pair[2])

\* the text holds "Drone Scooters", which nests "Drone", and nothing longer
C5_Witness ==
  /\ pc = "vendor"
  /\ textIncludesWord(fullText, "Drone Scooters")
  /\ textIncludesWord(fullText, "Drone")
  /\ <<"Drone", "Drone Scooters">> \in NestedVendorPairs
  /\ detectedVendor = "Drone Scooters"

(***************************************************************************)
(* Properties of detectProductType (SpecType)                              *)
(***************************************************************************)
\* w occurs in t with no word character ([A-Za-z0-9_]) right before or after
WholeWordIn(t, w) ==
  \E i \in 1..(Len(t) - Len(w) + 1) :
    /\ SubSeq(t, i, i + Len(w) - 1) = w
    /\ (i = 1 \/ ~IsWordChar(CharAt(t, i - 1)))
    /\ (i + Len(w) > Len(t) \/ ~IsWordChar(CharAt(t, i + Len(w))))

\* a clamp-family marker after diacritic folding and lowercasing
HasClampMarker(text) ==
  \E w \in {"clamp", "clamps", "clema", "scs"} : WholeWordIn(norm(text), w)

AliasHits(text) ==
  LET ntext == norm(text)
  IN  {i \in 1..Len(PRODUCT_TYPE_ALIASES) :
         SomePatternMatches(PRODUCT_TYPE_ALIASES[i].patterns, ntext)}

LiteralHits(text) ==
  LET hay == Haystack(norm(text))
  IN  {i \in 1..Len(PRODUCT_TYPES) : HaystackHasWord(hay, PRODUCT_TYPES[i])}

\* C6: every text with a clamp-family marker is classified "Clamp",
\* whatever alias patterns or category names it also contains.
C6_ClampOverride ==
  (pc = "type" /\ HasClampMarker(fullText)) => detectedType = "Clamp"

\* a clamp marker together with a marker of an alias category declared
\* before Clamp (grips) or after it (bolt)
C6_Witness ==
  /\ pc = "type"
  /\ HasClampMarker(fullText)
  /\ WholeWordIn(norm(fullText), "grips")
  /\ WholeWordIn(norm(fullText), "bolt")
  /\ detectedType = "Clamp"

\* C7: without a clamp marker, the first alias category (in declared order)
\* with a matching pattern is returned, whatever later alias categories or
\* category names match; only when no alias pattern matches, the first
\* whole-word-matching name of PRODUCT_TYPES; and null when nothing matches.
C7_TierOrder ==
  (pc = "type" /\ ~HasClampMarker(fullText)) =>
    LET aliases  == AliasHits(fullText)
        literals == LiteralHits(fullText)
    IN  /\ aliases # {} =>
              detectedType = PRODUCT_TYPE_ALIASES[KthOf(aliases, 1)].canonical
        /\ (aliases = {} /\ literals # {}) =>
              detectedType = PRODUCT_TYPES[KthOf(literals, 1)]
        /\ (aliases = {} /\ literals = {}) => detectedType = NULL

\* two alias categories and a category name match; the earlier alias wins
C7_Witness ==
  /\ pc = "type"
  /\ ~HasClampMarker(fullText)
  /\ Cardinality(AliasHits(fullText)) >= 2
  /\ LiteralHits(fullText) # {}
  /\ detectedType = "Mansoane"

\* no alias matches and two category names match; the earlier name wins
C7_WitnessLiteral ==
  /\ pc = "type"
  /\ AliasHits(fullText) = {}
  /\ Cardinality(LiteralHits(fullText)) >= 2
  /\ detectedType = "Deck"

\* C8: the result of detectProductType is null or a member of PRODUCT_TYPES.
C8_TypeIsCanonical ==
  pc = "type" => (detectedType = NULL \/ detectedType \in Range(PRODUCT_TYPES))

(***************************************************************************)
(* Properties of the title builder (SpecTitle)                             *)
(***************************************************************************)
\* the diacritic-folded, lowercased, alphanumeric-only key of a word
FoldedKey(word) == RemoveNonAlnum(norm(word))

NoRepeatedKey(title) ==
  LET words == Words(title)
  IN  \A i, k \in 1..Len(words) :
        (i # k /\ FoldedKey(words[i]) # "") => FoldedKey(words[i]) # FoldedKey(words[k])

\* C9: dedupeTitleWords(dedupeTitleWords(x)) = dedupeTitleWords(x); applying
\* it again to a buildTitle output changes nothing, and no buildTitle output
\* has two words with the same non-empty folded key.
C9_DedupeIdempotent ==
  /\ pc = "deduped" =>
        /\ finalTitle = dedupeTitleWords(searchTerm)
        /\ dedupeTitleWords(finalTitle) = finalTitle
        /\ NoRepeatedKey(finalTitle)
  /\ pc = "titled" =>
        /\ dedupeTitleWords(finalTitle) = finalTitle
        /\ NoRepeatedKey(finalTitle)

\* the input repeats a word under another spelling and the dedup removed it
C9_Witness ==
  /\ pc = "deduped"
  /\ ~NoRepeatedKey(searchTerm)
  /\ finalTitle # searchTerm
  /\ Len(Words(finalTitle)) >= 2

\* the search term repeats the vendor and the type; buildTitle removed both
C9_WitnessBuildTitle ==
  /\ pc = "titled"
  /\ detectedType = "Deck" /\ detectedVendor = "Tilt"
  /\ searchTerm = "Tilt Rot~i Deck"
  /\ finalTitle = "Deck Tilt Rot~i"

(***************************************************************************)
(* Properties of the handler (Spec, FairSpec)                              *)
(***************************************************************************)
\* both markers occur in the diacritic-folded, lowercased specification text
HasBothMarkers(specs) ==
  LET folded == norm(specs)
  IN  Includes(folded, "inaltime ghidon") /\ Includes(folded, "lungime deck")

\* the pair step 13 must produce from the classifier's result
ExpectedPair(classified, specs, title) ==
  IF HasBothMarkers(specs) THEN <<"Complete", "Trotineta">>
  ELSE IF classified = "Clamp" /\ WholeWordIn(toLowerCase(title), "scs")
       THEN <<"Clamp", "SCS">>
       ELSE <<classified, classified>>

\* C11: step 13 turns the classifier's result into the pair (stored
\* product_type, display token): ("Complete", "Trotineta") when the folded
\* specification text has both markers, else ("Clamp", "SCS") when the
\* classifier said "Clamp" and the title has the whole word SCS, else the
\* classifier's result twice; the success response stores that product_type,
\* and the title is built from the display token.
C11_PostProcessedPair ==
  /\ [][(pc = "post" /\ pc' = "overlay") =>
          /\ <<detectedType', titleTypeForDisplay'>>
               = ExpectedPair(detectedType, specs_html, productTitle)
          /\ finalTitle' = buildTitle(titleTypeForDisplay', detectedVendor, searchTerm)]_vars
  /\ [](response.code = 200 =>
          /\ response.product_type = detectedType
          /\ response.title = finalTitle)

\* the classifier said "Clamp", the title has SCS, and the specification
\* block has both markers: Complete / Trotineta in the success response
C11_Witness ==
  /\ response.code = 200
  /\ fullText = "SCS Clamp Tilt"
  /\ productTitle = "Clamp SCS"
  /\ HasBothMarkers(specs_html)
  /\ response.product_type = "Complete"
  /\ titleTypeForDisplay = "Trotineta"

\* the classifier said "Clamp" and the title has SCS: Clamp stays stored
C11_WitnessSCS ==
  /\ response.code = 200
  /\ response.product_type = "Clamp"
  /\ titleTypeForDisplay = "SCS"
  /\ response.title = "Scs Tilt Deck"

\* a field of the request body is missing
MissingFields == credentials # Fields \/ searchTerm = ""

RecordKeys == {"title", "product_type", "options", "variants"}

\* the response the contract promises for this request
PromisedResponse ==
  \/ MissingFields /\ response = BadRequest
  \/ ~MissingFields /\ response.code = 200 /\ RecordKeys \subseteq response.keys
  \/ /\ ~MissingFields
     /\ response.code = 500
     /\ response.keys = {"success", "error", "status"}
     /\ response.success = FALSE

\* C12: every request eventually receives its response: 400 when a field is
\* missing, else 200 with the ProductRecord, or 500 with {success:false,
\* error, status} when a step of the processing failed.
C12_EventuallyResponds == <>PromisedResponse

\* the positions of the handler in the order of the code
PipelineOrder ==
  <<"validate", "launch", "login", "search", "open", "detect", "colours", "wait",
    "highest", "parse", "prices", "build", "describe", "post", "overlay", "images">>

Position(at) == CHOOSE k \in 1..Len(PipelineOrder) : PipelineOrder[k] = at

\* the stages that completed before the handler came to position at
CompletedBefore(at) ==
  {stage \in {"login", "search", "productClick"} :
     Position(at) > Position(IF stage = "productClick" THEN "open" ELSE stage)}

\* C13: status gets its entries in the order login, search, productClick,
\* each one only when its stage completed (search implies login,
\* productClick implies search, and at every position of the pipeline status
\* holds exactly the stages completed before it); a failure response carries
\* exactly the entries of the stages completed before the failing step and
\* none of the ProductRecord fields.
C13_StatusFollowsPipeline ==
  /\ "search" \in status => "login" \in status
  /\ "productClick" \in status => "search" \in status
  /\ pc \in Range(PipelineOrder) => status = CompletedBefore(pc)
  /\ pc = "catch" => status = CompletedBefore(err)
  /\ response.code = 500 =>
       /\ response.keys \cap RecordKeys = {}
       /\ "status" \in response.keys =>
            /\ response.status = CompletedBefore(response.error)
            /\ response.status = status

\* the product could not be opened: the response carries login and search
C13_Witness ==
  /\ response.code = 500
  /\ "error" \in response.keys
  /\ response.error = "open"
  /\ response.status = {"login", "search"}

\* a failure after all three stages: the record is not in the response
C13_WitnessLate ==
  /\ response.code = 500
  /\ "error" \in response.keys
  /\ response.error = "overlay"
  /\ response.status = {"login", "search", "productClick"}
  /\ variants # <<>>

\* the URLs of the images among the first n of the list that can be
\* fetched and transformed, in list order (image k is stored as file k - 1)
ProcessedAmongFirst(n) ==
  LET good == SelectSeq([k \in 1..n |-> k], LAMBDA k : finalImageUrls[k] \in fetchable)
  IN  [j \in 1..Len(good) |-> good[j] - 1]

\* C14: the images are processed one at a time in list order; an image whose
\* fetch or transform fails gets no entry and the loop goes on with the next
\* image; the loop never leaves for the catch block but ends in the success
\* response, whose imageUrls are exactly the successfully processed images
\* in their original order.
C14_ImageFailuresIsolated ==
  /\ [](pc = "images" => processedImages = ProcessedAmongFirst(imgIndex))
  /\ [][pc = "images" =>
          /\ imgIndex' \in {imgIndex, imgIndex + 1}
          /\ pc' \in {"images", "done"}
          /\ pc' = "done" =>
               /\ imgIndex = Len(finalImageUrls)
               /\ response'.code = 200]_vars
  /\ [](response.code = 200 =>
          response.imageUrls = ProcessedAmongFirst(Len(finalImageUrls)))

\* the first image failed, the second was processed and is the only entry
C14_Witness ==
  /\ response.code = 200
  /\ Len(finalImageUrls) = 2
  /\ finalImageUrls[1] \notin fetchable
  /\ finalImageUrls[2] \in fetchable
  /\ response.imageUrls = <<1>>

HardSteps == {"login", "search", "open"}

\* rows were parsed (step 9 is behind the handler)
RowsParsed == pc \in {"prices", "build", "describe", "post", "overlay", "images"}
              \/ response.code = 200

\* nothing of steps 4-14 has happened
NoLaterStageRan ==
  /\ fullText = "" /\ productTitle = "" /\ detectedVendor = NULL /\ detectedType = ""
  /\ BlankPage /\ BlankVariants
  /\ finalTitle = "" /\ specs_html = NULL /\ titleTypeForDisplay = ""
  /\ finalImageUrls = <<>> /\ processedImages = <<>>

\* the soft wait never fails the request, and a failing hard step aborts it
SoftAndHardWaits ==
  /\ [](err # "wait")
  /\ [][(pc = "wait" /\ pc' # pc) => (pc' = "highest" /\ response' = response)]_vars
  /\ [][(pc \in HardSteps /\ pc' = "catch") =>
          (err' = pc /\ status' = status /\ NoLaterStageRan')]_vars
  /\ [](err \in HardSteps =>
          /\ pc \in {"catch", "done"}
          /\ status = CompletedBefore(err)
          /\ NoLaterStageRan
          /\ pc = "done" => response = ErrorResponse(err, CompletedBefore(err)))
  /\ [][(pc = "catch" /\ pc' # pc) =>
          (pc' = "done" /\ response' = ErrorResponse(err, status))]_vars

\* C15 (as stated): a timeout of the soft wait never fails the request and
\* the pipeline continues with no variant rows; a failure of a login, search
\* or product-open step aborts the pipeline: no later stage runs, no later
\* status entry is recorded, and the error response carries the partial status.
C15_TimeoutMeansNoRows ==
  /\ SoftAndHardWaits
  /\ []((waitTimedOut /\ RowsParsed) => parsed.rows = <<>>)

\* C15 (amended): a timeout of the soft wait never fails the request: the
\* pipeline continues and step 9 parses whatever rows the document, the popup
\* and the overlay hold, exactly as after a wait that succeeded (possibly
\* none); a failure of a login, search or product-open step aborts the
\* pipeline: no later stage runs, no later status entry is recorded, and the
\* error response carries the partial status.
C15_SoftWaitContinues ==
  /\ SoftAndHardWaits
  /\ [](RowsParsed => parsed = ParseVariantRows(dom, popupFrom))

\* the wait timed out, the request succeeded, and rows were parsed
C15_Witness ==
  /\ waitTimedOut
  /\ response.code = 200
  /\ parsed.rows # <<>>
  /\ variants # <<>>

\* the search failed: the error response carries login only
C15_WitnessHard ==
  /\ pc = "done"
  /\ err = "search"
  /\ response = ErrorResponse("search", {"login"})

(***************************************************************************)
(* Monotonicity of the pricing rule (SpecMonotone)                         *)
(***************************************************************************)
\* the number a string of decimal digits denotes
RECURSIVE DecimalValue(_)
DecimalValue(digits) ==
  IF digits = "" THEN 0
  ELSE DecimalValue(SubSeq(digits, 1, Len(digits) - 1)) * 10
       + (IndexIn(SubSeq(digits, Len(digits), Len(digits)), DIGITS) - 1)

\* the numeric value, in hundredths, of a price "[-]d+.dd"
NumericValue(price) ==
  LET negative == SubSeq(price, 1, 1) = "-"
      body     == IF negative THEN SubSeq(price, 2, Len(price)) ELSE price
      value    == DecimalValue(SubSeq(body, 1, Len(body) - 3)) * 100
                  + DecimalValue(SubSeq(body, Len(body) - 1, Len(body)))
  IN  IF negative THEN 0 - value ELSE value

\* C16: the price is non-decreasing in the amount: for the rows of a page
\* that show the amounts a <= b, the numeric value of the price of the first
\* row's variant is <= that of the second row's variant (the rate is the
\* constant of the code).
C16_ConvertMonotone ==
  (Assembled /\ Len(variants) = 2) =>
    /\ dom[1].priceEur <= dom[2].priceEur
    /\ variants[1].price = toRON99_99(dom[1].priceEur)
    /\ variants[2].price = toRON99_99(dom[2].priceEur)
    /\ NumericValue(variants[1].price) <= NumericValue(variants[2].price)

\* two amounts in different 5-lei buckets, the second price is higher
C16_Witness ==
  /\ Assembled /\ Len(variants) = 2
  /\ dom[1].priceEur = 100
  /\ dom[2].priceEur = 101
  /\ variants[1].price = "4.99"
  /\ variants[2].price = "9.99"

\* C17: every processed-image URL of a request's success response refers to
\* a stored file that holds the processed content of that request's own
\* image, whatever another request of the same process does before, during
\* or after the request.
C17_ResponseFilesOwnContent ==
  response.code = 200 =>
    \A k \in 1..Len(response.imageUrls) :
      LET name == response.imageUrls[k]
      IN  /\ name \in DOMAIN files
          /\ files[name] = finalImageUrls[name + 1]

====
